---- MODULE Spec2Model ----
(***************************************************************************)
(* Authentication service of the CMS backend: credential store (users),    *)
(* revocation ledger (refresh_tokens), token issuer (jwt.ts) and the auth, *)
(* password and maintenance endpoints.  Every request handler runs in a    *)
(* handler slot; one step of a handler is the local computation up to and  *)
(* including its next database statement (each statement commits on its    *)
(* own, there are no multi-statement transactions).                        *)
(* Time is counted in minutes.                                             *)
(***************************************************************************)
EXTENDS Integers, Sequences, FiniteSets, TLC

VARIABLES users, ledger, now, issued, nextJti, nextReset, nextUser, fe, pc, loc, last, seq,
          cred, rotated, forced

vars == <<users, ledger, now, issued, nextJti, nextReset, nextUser, fe, pc, loc, last, seq,
          cred, rotated, forced>>

(***************************************************************************)
(* Bounds of the model.                                                    *)
(***************************************************************************)
MaxTokens == 2      \* token pairs generated in one behaviour
MaxResets == 2      \* reset tokens generated in one behaviour
MaxTicks == 2       \* clock advances in one behaviour
MaxRaceTokens == 3  \* token pairs generated in one behaviour of the race workload

Procs == {1, 2}                        \* concurrent request handlers
Emails == {"a@x.com", "b@x.com"}
Passwords == {"secret1", "secret2"}       \* acceptable passwords (length >= 6)
ShortPassword == "abc"                    \* a password of length < 6
Missing == ""                             \* an absent / empty request field

(***************************************************************************)
(* Program constants (minutes).                                            *)
(***************************************************************************)
ACCESS_TOKEN_EXPIRY == 30
REFRESH_TOKEN_EXPIRY == 7 * 24 * 60
RESET_TOKEN_EXPIRY == 60
LEDGER_EXPIRY == 7 * 24 * 60
MIN_PASSWORD_LENGTH == 6
NULL == -1

JWT_ACCESS_SECRET == "access-secret"
JWT_REFRESH_SECRET == "refresh-secret"
ForeignSecret == "foreign-secret"         \* a key the service does not own

(***************************************************************************)
(* Password hasher (utils/password.ts): bcrypt keeps the salt in the       *)
(* digest; compare re-hashes the candidate with the digest's salt.         *)
(***************************************************************************)
Salts == {"s1"}

bcryptDigest(password, salt) == <<"$2b$", salt, password>>

hashPassword(password, salt) == bcryptDigest(password, salt)

\* Mutant: the length of a password is not checked.
passwordTooShort_never(password) == FALSE

\* The length test the endpoints apply to a new password.
passwordTooShort(password) == Len(password) < MIN_PASSWORD_LENGTH

\* Mutant: a reset token that lasts a day.
resetTokenExpires_day(t) == t + 24 * 60

\* Date.now() + 1 hour, the expiry forgotPassword stores.
resetTokenExpires(t) == t + RESET_TOKEN_EXPIRY

\* Mutant: every password is accepted.
verifyPassword_any(password, hash) == TRUE

verifyPassword(password, hash) == hash = bcryptDigest(password, hash[2])

(***************************************************************************)
(* Token issuer (jwt.ts).  A token is what jwt.sign produced: the claims   *)
(* and the key that signed them.                                           *)
(***************************************************************************)
NoToken == [kind |-> "none", key |-> "", type |-> "", sub |-> 0, jti |-> 0,
            email |-> "", is_verified |-> FALSE, exp |-> 0]

Malformed == [NoToken EXCEPT !.kind = "malformed"]

generateAccessToken(user, t) ==
    [kind |-> "jwt", key |-> JWT_ACCESS_SECRET, type |-> "access",
     sub |-> user.id, jti |-> 0, email |-> user.email,
     is_verified |-> user.is_verified, exp |-> t + ACCESS_TOKEN_EXPIRY]

\* Mutant: the jti claim is left out of the payload.
generateRefreshToken_noJti(userId, jti, t) ==
    [kind |-> "jwt", key |-> JWT_REFRESH_SECRET, type |-> "refresh",
     sub |-> userId, jti |-> 0, email |-> "",
     is_verified |-> FALSE, exp |-> t + REFRESH_TOKEN_EXPIRY]

generateRefreshToken(userId, jti, t) ==
    [kind |-> "jwt", key |-> JWT_REFRESH_SECRET, type |-> "refresh",
     sub |-> userId, jti |-> jti, email |-> "",
     is_verified |-> FALSE, exp |-> t + REFRESH_TOKEN_EXPIRY]

generateTokenPair(user, jti, t) ==
    [accessToken |-> generateAccessToken(user, t),
     refreshToken |-> generateRefreshToken(user.id, jti, t),
     jti |-> jti]

\* jwt.verify: malformed or wrongly signed -> JsonWebTokenError, then the
\* expiry check -> TokenExpiredError (a subclass of JsonWebTokenError).
jwtVerify(token, secret, t) ==
    IF token.kind # "jwt" \/ token.key # secret THEN "JsonWebTokenError"
    ELSE IF t >= token.exp THEN "TokenExpiredError"
    ELSE "ok"

\* jsonwebtoken's TokenExpiredError extends JsonWebTokenError.
IsJsonWebTokenError(v) == v \in {"JsonWebTokenError", "TokenExpiredError"}

\* The outcome of validateAccessToken: "ok" (the payload is the token's
\* claims) or the message of the APIError it throws.  The type check throws
\* inside the try block; its APIError is neither jwt error and is rethrown.
\* Mutant: an access token dies with the last live session of its user.
validateAccessToken_sessionBound(token, t) ==
    IF jwtVerify(token, JWT_ACCESS_SECRET, t) = "ok" /\ token.type = "access"
          /\ \E r \in ledger : r.user_id = token.sub /\ ~r.revoked
    THEN "ok"
    ELSE "Invalid access token"

validateAccessToken(token, t) ==
    LET v == jwtVerify(token, JWT_ACCESS_SECRET, t) IN
    IF v = "ok"
    THEN (IF token.type # "access" THEN "Invalid token type" ELSE "ok")
    ELSE IF IsJsonWebTokenError(v) THEN "Invalid access token"
    ELSE "Access token expired"

\* Mutant: the type claim of the payload is not looked at.
validateRefreshToken_anyType(token, t) ==
    IF jwtVerify(token, JWT_REFRESH_SECRET, t) = "ok" THEN "ok" ELSE "Invalid refresh token"

\* Mutant: every token is rejected.
validateRefreshToken_rejects(token, t) == "Invalid refresh token"

validateRefreshToken(token, t) ==
    LET v == jwtVerify(token, JWT_REFRESH_SECRET, t) IN
    IF v = "ok"
    THEN (IF token.type # "refresh" THEN "Invalid token type" ELSE "ok")
    ELSE IF IsJsonWebTokenError(v) THEN "Invalid refresh token"
    ELSE "Refresh token expired"

\* extractUserFromToken = validateAccessToken + projection of the payload.
extractUserFromToken(token, t) == validateAccessToken(token, t)

(***************************************************************************)
(* Credential store (table users) and revocation ledger (table             *)
(* refresh_tokens, services/token-service.ts).                             *)
(***************************************************************************)
NoUser == [id |-> 0, email |-> "", is_verified |-> FALSE]

PublicUser(u) == [id |-> u.id, email |-> u.email, is_verified |-> u.is_verified]

UsersByEmail(email) == {u \in users : u.email = email}

UsersById(id) == {u \in users : u.id = id}

\* INSERT INTO users (email, password_hash, verification_token): the id is a
\* fresh uuid, is_verified and the reset columns take their defaults.
NewUserRow(email, passwordHash) ==
    [id |-> nextUser, email |-> email,
     password_hash |-> passwordHash, is_verified |-> FALSE,
     reset_token |-> NULL, reset_token_expires |-> NULL]

\* Mutant: the INSERT replaces the user's other unrevoked rows.
storeRefreshToken_replaces(userId, jti) ==
    {r \in ledger : r.user_id # userId \/ r.revoked}
        \cup {[jti |-> jti, user_id |-> userId, expires_at |-> now + LEDGER_EXPIRY,
               revoked |-> FALSE, revoked_at |-> NULL]}

\* INSERT INTO refresh_tokens (user_id, jti): expires_at defaults to
\* NOW() + 7 days, revoked to FALSE, revoked_at to NULL.
storeRefreshToken(userId, jti) ==
    ledger \cup {[jti |-> jti, user_id |-> userId,
                  expires_at |-> now + LEDGER_EXPIRY,
                  revoked |-> FALSE, revoked_at |-> NULL]}

\* Mutant: the revoked flag is not looked at.
isRefreshTokenValid_ignoresRevoked(jti) ==
    \E r \in ledger : r.jti = jti /\ r.expires_at > now

isRefreshTokenValid(jti) ==
    \E r \in ledger : r.jti = jti /\ r.expires_at > now /\ r.revoked = FALSE

\* Mutant: the UPDATE matches no row.
revokeRefreshToken_none(jti) == ledger

\* Mutant: the UPDATE flips the flag.
revokeRefreshToken_toggles(jti) ==
    {IF r.jti = jti
     THEN [r EXCEPT !.revoked = ~r.revoked, !.revoked_at = now] ELSE r : r \in ledger}

\* Mutant: the row is deleted instead of flagged.
revokeRefreshToken_deletes(jti) == {r \in ledger : r.jti # jti}

revokeRefreshToken(jti) ==
    {IF r.jti = jti
     THEN [r EXCEPT !.revoked = TRUE, !.revoked_at = now] ELSE r : r \in ledger}

\* Mutant: the UPDATE matches no row.
revokeAllUserTokens_none(userId) == ledger

\* Mutant: the WHERE clause forgets the user.
revokeAllUserTokens_everyone(userId) ==
    {IF r.revoked = FALSE
     THEN [r EXCEPT !.revoked = TRUE, !.revoked_at = now] ELSE r : r \in ledger}

revokeAllUserTokens(userId) ==
    {IF r.user_id = userId /\ r.revoked = FALSE
     THEN [r EXCEPT !.revoked = TRUE, !.revoked_at = now] ELSE r : r \in ledger}

\* Mutant: the job forgets the revoked rows.
CleanupMatches_expiredOnly(r) == r.expires_at < now

\* The WHERE clause of the cleanup job's COUNT and DELETE.

CleanupMatches(r) == r.expires_at < now \/ r.revoked = TRUE

(***************************************************************************)
(* Requests and responses.                                                 *)
(***************************************************************************)
NoReq == [email |-> "", password |-> "", newPassword |-> "", token |-> 0,
          authorization |-> NoToken, accessCookie |-> NoToken,
          refreshCookie |-> NoToken]

NoResp == [status |-> 0, code |-> "", message |-> "", cookies |-> "none",
           success |-> FALSE, user |-> NoUser, access |-> NoToken,
           refresh |-> NoToken, count |-> 0]

ErrorResp(status, code, message) ==
    [NoResp EXCEPT !.status = status, !.code = code, !.message = message]

\* generateLoginResponse + setCookies: the body carries the user and the
\* access token, the cookies carry both tokens.
LoginResp(user, pair) ==
    [NoResp EXCEPT !.status = 200, !.cookies = "set", !.success = TRUE,
                   !.user = PublicUser(user), !.access = pair.accessToken,
                   !.refresh = pair.refreshToken]

SuccessResp(message) ==
    [NoResp EXCEPT !.status = 200, !.success = TRUE, !.message = message]

GenericForgotMessage ==
    "If an account with this email exists, a password reset link has been sent."

IdleLoc == [op |-> "none", req |-> NoReq, user |-> NoUser, access |-> NoToken,
            refresh |-> NoToken, count |-> 0, snap |-> {}]

NoCred == [id |-> 0, password |-> ""]

\* The browser before the application has loaded: the Redux auth slice's
\* initialState, an empty localStorage and an empty cookie jar; thunk is the
\* position of the running thunk, sent the value of seq when its pending
\* request was sent, settled the thunk that settled last.
FrontendInit ==
    [user |-> NoUser, isAuthenticated |-> FALSE, isLoading |-> FALSE,
     error |-> "", isInitialized |-> FALSE,
     localAccess |-> NoToken, localRefresh |-> NoToken,
     cookieAccess |-> NoToken, cookieRefresh |-> NoToken,
     thunk |-> "idle", sent |-> 0, settled |-> "none"]

(***************************************************************************)
(* What a client can send.  A client holds the tokens the service issued   *)
(* and can make tokens signed with a key of its own.                       *)
(***************************************************************************)
Forge(token) == [token EXCEPT !.key = ForeignSecret]

TokenInputs == {NoToken, Malformed} \cup issued \cup {Forge(t) : t \in issued}

\* Header and cookie of one request: one of them, or two issued tokens.
TokenPairInputs ==
    {<<h, NoToken>> : h \in TokenInputs} \cup {<<NoToken, c>> : c \in TokenInputs}
        \cup (issued \X issued)

EmailInputs == Emails \cup {Missing}

PasswordInputs == Passwords \cup {ShortPassword, Missing}

BogusResetToken == 99

ResetTokenInputs == (0 .. nextReset - 1) \cup {BogusResetToken}

\* Handlers that will still generate a token pair / a reset token.
Issuing == {p \in Procs : pc[p] \in {"signup_insert", "signup_store", "signin_store",
                                      "refresh_user", "refresh_revoke"}}

MayIssueWithin(bound) == (nextJti - 1) + Cardinality(Issuing) < bound

MayIssue == MayIssueWithin(MaxTokens)

MayReset == (nextReset - 1) + Cardinality({p \in Procs : pc[p] = "forgot_update"}) < MaxResets

Ticks == (now \div LEDGER_EXPIRY) + ((now % LEDGER_EXPIRY) \div ACCESS_TOKEN_EXPIRY)

(***************************************************************************)
(* Initial state: empty tables, no request in flight.                      *)
(***************************************************************************)
Init ==
    /\ users = {}
    /\ ledger = {}
    /\ now = 0
    /\ issued = {}
    /\ nextJti = 1
    /\ nextReset = 1
    /\ nextUser = 1
    /\ fe = FrontendInit
    /\ pc = [p \in Procs |-> "idle"]
    /\ loc = [p \in Procs |-> IdleLoc]
    /\ last = [op |-> "none", req |-> NoReq, resp |-> NoResp]
    /\ seq = 0
    /\ cred = [e \in Emails |-> NoCred]
    /\ rotated = {}
    /\ forced = {}

\* The slots are interchangeable: a request takes the first free one.
Free(p) == pc[p] = "idle" /\ \A q \in Procs : (pc[q] = "idle" => p <= q)

\* The handler answers: the response is recorded and the slot is free again.
Respond(p, op, req, resp) ==
    /\ pc' = [pc EXCEPT ![p] = "idle"]
    /\ loc' = [loc EXCEPT ![p] = IdleLoc]
    /\ last' = [op |-> op, req |-> req, resp |-> resp]
    /\ seq' = 1 - seq

\* The handler goes on to its next statement.
Goto(p, label, l) ==
    /\ pc' = [pc EXCEPT ![p] = label]
    /\ loc' = [loc EXCEPT ![p] = l]
    /\ UNCHANGED <<last, seq>>

(***************************************************************************)
(* endpoints/auth.ts: signup.                                              *)
(***************************************************************************)
\* Input validation and the SELECT that looks for an existing user.
signup(p, email, password) ==
    LET req == [NoReq EXCEPT !.email = email, !.password = password] IN
    /\ Free(p)
    /\ IF email = Missing \/ password = Missing
       THEN Respond(p, "signup", req,
                    ErrorResp(400, "invalid_argument", "Email and password are required"))
       ELSE IF passwordTooShort(password)
       THEN Respond(p, "signup", req,
                    ErrorResp(400, "invalid_argument",
                              "Password must be at least 6 characters long"))
       ELSE IF UsersByEmail(email) # {}
       THEN Respond(p, "signup", req,
                    ErrorResp(409, "already_exists", "User with this email already exists"))
       ELSE MayIssue /\ Goto(p, "signup_insert", [IdleLoc EXCEPT !.op = "signup", !.req = req])
    /\ UNCHANGED <<users, ledger, now, issued, nextJti, nextReset, cred, rotated, forced, nextUser, fe>>

\* hashPassword and the INSERT; email is UNIQUE, a violation throws and the
\* handler's catch answers 500.
signup_insert(p) ==
    /\ pc[p] = "signup_insert"
    /\ \E salt \in Salts :
        LET req == loc[p].req
            row == NewUserRow(req.email, hashPassword(req.password, salt)) IN
        IF UsersByEmail(req.email) # {}
        THEN /\ Respond(p, "signup", req,
                        ErrorResp(500, "internal", "Internal server error"))
             /\ UNCHANGED <<users, cred, nextUser>>
        ELSE /\ users' = users \cup {row}
             /\ nextUser' = nextUser + 1
             /\ cred' = [cred EXCEPT ![req.email] =
                            [id |-> row.id, password |-> req.password]]
             /\ Goto(p, "signup_store", [loc[p] EXCEPT !.user = PublicUser(row)])
    /\ UNCHANGED <<ledger, now, issued, nextJti, nextReset, rotated, forced, fe>>

\* generateTokenPair, storeRefreshToken, setCookies and the 200 response.
signup_store(p) ==
    /\ pc[p] = "signup_store"
    /\ LET pair == generateTokenPair(loc[p].user, nextJti, now) IN
        /\ nextJti' = nextJti + 1
        /\ IF UsersById(loc[p].user.id) = {}
           THEN \* user_id REFERENCES users(id): the INSERT throws, the catch answers
                /\ Respond(p, "signup", loc[p].req,
                           ErrorResp(500, "internal", "Internal server error"))
                /\ UNCHANGED <<ledger, issued>>
           ELSE /\ ledger' = storeRefreshToken(loc[p].user.id, pair.jti)
                /\ issued' = issued \cup {pair.accessToken, pair.refreshToken}
                /\ Respond(p, "signup", loc[p].req, LoginResp(loc[p].user, pair))
    /\ UNCHANGED <<users, now, nextReset, cred, rotated, forced, nextUser, fe>>

(***************************************************************************)
(* endpoints/auth.ts: signin.                                              *)
(***************************************************************************)
\* Mutant: an unknown email gets an answer of its own.
SigninUnknownEmail_reveals == ErrorResp(404, "not_found", "User not found")

\* The answer when no user has the email, and when the password is wrong.
SigninUnknownEmail == ErrorResp(401, "unauthenticated", "Invalid email or password")

SigninWrongPassword == ErrorResp(401, "unauthenticated", "Invalid email or password")

\* Input validation, the SELECT by email and verifyPassword.
signin(p, email, password) ==
    LET req == [NoReq EXCEPT !.email = email, !.password = password]
        found == UsersByEmail(email) IN
    /\ Free(p)
    /\ IF email = Missing \/ password = Missing
       THEN Respond(p, "signin", req,
                    ErrorResp(400, "invalid_argument", "Email and password are required"))
       ELSE IF found = {}
       THEN Respond(p, "signin", req, SigninUnknownEmail)
       ELSE LET user == CHOOSE u \in found : TRUE IN
            IF ~verifyPassword(password, user.password_hash)
            THEN Respond(p, "signin", req, SigninWrongPassword)
            ELSE MayIssue /\ Goto(p, "signin_store",
                      [IdleLoc EXCEPT !.op = "signin", !.req = req,
                                      !.user = PublicUser(user)])
    /\ UNCHANGED <<users, ledger, now, issued, nextJti, nextReset, cred, rotated, forced, nextUser, fe>>

signin_store(p) ==
    /\ pc[p] = "signin_store"
    /\ LET pair == generateTokenPair(loc[p].user, nextJti, now) IN
        /\ nextJti' = nextJti + 1
        /\ IF UsersById(loc[p].user.id) = {}
           THEN \* user_id REFERENCES users(id): the INSERT throws, the catch answers
                /\ Respond(p, "signin", loc[p].req,
                           ErrorResp(500, "internal", "Internal server error"))
                /\ UNCHANGED <<ledger, issued>>
           ELSE /\ ledger' = storeRefreshToken(loc[p].user.id, pair.jti)
                /\ issued' = issued \cup {pair.accessToken, pair.refreshToken}
                /\ Respond(p, "signin", loc[p].req, LoginResp(loc[p].user, pair))
    /\ UNCHANGED <<users, now, nextReset, cred, rotated, forced, nextUser, fe>>

(***************************************************************************)
(* endpoints/auth.ts: refresh.                                             *)
(***************************************************************************)
\* Cookie parsing, validateRefreshToken (a throw is answered by the catch)
\* and the ledger check isRefreshTokenValid.
\* bound is the number of token pairs the workload lets a behaviour generate.
refresh_within(p, cookie, bound) ==
    LET req == [NoReq EXCEPT !.refreshCookie = cookie] IN
    /\ Free(p)
    /\ IF cookie = NoToken
       THEN Respond(p, "refresh", req,
                    ErrorResp(401, "unauthenticated", "No refresh token provided"))
       ELSE IF validateRefreshToken(cookie, now) # "ok"
       THEN Respond(p, "refresh", req,
                    ErrorResp(401, "unauthenticated", "Invalid refresh token"))
       ELSE IF ~isRefreshTokenValid(cookie.jti)
       THEN Respond(p, "refresh", req,
                    ErrorResp(401, "unauthenticated", "Refresh token revoked or expired"))
       ELSE MayIssueWithin(bound)
               /\ Goto(p, "refresh_user", [IdleLoc EXCEPT !.op = "refresh", !.req = req])
    /\ UNCHANGED <<users, ledger, now, issued, nextJti, nextReset, cred, rotated, forced, nextUser, fe>>

refresh(p, cookie) == refresh_within(p, cookie, MaxTokens)

\* The SELECT of the user named by payload.sub.
refresh_user(p) ==
    LET found == UsersById(loc[p].req.refreshCookie.sub) IN
    /\ pc[p] = "refresh_user"
    /\ IF found = {}
       THEN Respond(p, "refresh", loc[p].req,
                    ErrorResp(401, "unauthenticated", "User not found"))
       ELSE Goto(p, "refresh_revoke",
                 [loc[p] EXCEPT !.user = PublicUser(CHOOSE u \in found : TRUE)])
    /\ UNCHANGED <<users, ledger, now, issued, nextJti, nextReset, cred, rotated, forced, nextUser, fe>>

\* generateTokenPair, then revokeRefreshToken(payload.jti).
refresh_revoke(p) ==
    /\ pc[p] = "refresh_revoke"
    /\ LET pair == generateTokenPair(loc[p].user, nextJti, now) IN
        /\ nextJti' = nextJti + 1
        /\ ledger' = revokeRefreshToken(loc[p].req.refreshCookie.jti)
        /\ Goto(p, "refresh_store", [loc[p] EXCEPT !.access = pair.accessToken,
                                                    !.refresh = pair.refreshToken])
    /\ UNCHANGED <<users, now, issued, nextReset, cred, rotated, forced, nextUser, fe>>

\* storeRefreshToken(user.id, newJti), setCookies and the 200 response.
refresh_store(p) ==
    /\ pc[p] = "refresh_store"
    /\ IF UsersById(loc[p].user.id) = {}
       THEN \* user_id REFERENCES users(id): the INSERT throws, the catch answers
            /\ Respond(p, "refresh", loc[p].req,
                       ErrorResp(401, "unauthenticated", "Invalid refresh token"))
            /\ UNCHANGED <<ledger, issued, rotated>>
       ELSE /\ ledger' = storeRefreshToken(loc[p].user.id, loc[p].refresh.jti)
            /\ issued' = issued \cup {loc[p].access, loc[p].refresh}
            /\ rotated' = rotated \cup {loc[p].req.refreshCookie.jti}
            /\ Respond(p, "refresh", loc[p].req,
                       [NoResp EXCEPT !.status = 200, !.success = TRUE, !.cookies = "set",
                                      !.access = loc[p].access, !.refresh = loc[p].refresh])
    /\ UNCHANGED <<users, now, nextJti, nextReset, cred, forced, nextUser, fe>>

(***************************************************************************)
(* endpoints/auth.ts: logout and me.                                       *)
(***************************************************************************)
\* The refresh token is revoked when validateRefreshToken accepts it; a
\* throw is swallowed.  clearCookies and the 200 response follow in any case.
logout(p, cookie) ==
    /\ Free(p)
    /\ ledger' = IF cookie # NoToken /\ validateRefreshToken(cookie, now) = "ok"
                 THEN revokeRefreshToken(cookie.jti)
                 ELSE ledger
    /\ Respond(p, "logout", [NoReq EXCEPT !.refreshCookie = cookie],
               [NoResp EXCEPT !.status = 200, !.success = TRUE, !.cookies = "cleared"])
    /\ UNCHANGED <<users, now, issued, nextJti, nextReset, cred, rotated, forced, nextUser, fe>>

\* The access token me reads: the handler parses the Cookie header only.
meAccessToken(authorization, cookie) == cookie

\* Mutant: the answer repeats what the token says.
meUser_fromToken(accessToken, user) ==
    [id |-> accessToken.sub, email |-> accessToken.email,
     is_verified |-> accessToken.is_verified]

\* The body me answers with: id, email and is_verified of the row it read.
meUser(accessToken, user) == PublicUser(user)

me(p, authorization, cookie) ==
    LET req == [NoReq EXCEPT !.authorization = authorization, !.accessCookie = cookie]
        accessToken == meAccessToken(authorization, cookie)
        found == UsersById(accessToken.sub) IN
    /\ Free(p)
    /\ IF accessToken = NoToken
       THEN Respond(p, "me", req,
                    ErrorResp(401, "unauthenticated", "No access token provided"))
       ELSE IF extractUserFromToken(accessToken, now) # "ok"
       THEN Respond(p, "me", req,
                    ErrorResp(401, "unauthenticated", "Invalid access token"))
       ELSE IF found = {}
       THEN Respond(p, "me", req, ErrorResp(401, "unauthenticated", "User not found"))
       ELSE Respond(p, "me", req,
                    [NoResp EXCEPT !.status = 200,
                                   !.user = meUser(accessToken, CHOOSE u \in found : TRUE)])
    /\ UNCHANGED <<users, ledger, now, issued, nextJti, nextReset, cred, rotated, forced, nextUser, fe>>

(***************************************************************************)
(* endpoints/password.ts: forgotPassword, resetPassword, changePassword.   *)
(* These are typed endpoints: a thrown APIError is the response.           *)
(***************************************************************************)
forgotPassword(p, email) ==
    LET req == [NoReq EXCEPT !.email = email]
        found == UsersByEmail(email) IN
    /\ Free(p)
    /\ IF email = Missing
       THEN Respond(p, "forgotPassword", req,
                    ErrorResp(400, "invalid_argument", "Email is required"))
       ELSE IF found = {}
       THEN Respond(p, "forgotPassword", req, SuccessResp(GenericForgotMessage))
       ELSE MayReset /\ Goto(p, "forgot_update",
                 [IdleLoc EXCEPT !.op = "forgotPassword", !.req = req,
                                 !.user = PublicUser(CHOOSE u \in found : TRUE)])
    /\ UNCHANGED <<users, ledger, now, issued, nextJti, nextReset, cred, rotated, forced, nextUser, fe>>

\* generateResetToken and the UPDATE that stores it with its expiry.
forgot_update(p) ==
    /\ pc[p] = "forgot_update"
    /\ users' = {IF u.id = loc[p].user.id
                 THEN [u EXCEPT !.reset_token = nextReset,
                                !.reset_token_expires = resetTokenExpires(now)]
                 ELSE u : u \in users}
    /\ nextReset' = nextReset + 1
    /\ Respond(p, "forgotPassword", loc[p].req, SuccessResp(GenericForgotMessage))
    /\ UNCHANGED <<ledger, now, issued, nextJti, cred, rotated, forced, nextUser, fe>>

\* Mutant: the SELECT forgets to compare the token.
ResetTokenRows_anyToken(token) ==
    {u \in users : u.reset_token # NULL /\ u.reset_token_expires > now}

\* Mutant: a token is still good at the instant it expires.
ResetTokenRows_inclusive(token) ==
    {u \in users : u.reset_token = token /\ u.reset_token_expires >= now}

\* The row resetPassword selects: reset_token matches and has not expired.
ResetTokenRows(token) ==
    {u \in users : u.reset_token = token /\ u.reset_token_expires > now}

resetPassword(p, token, newPassword) ==
    LET req == [NoReq EXCEPT !.token = token, !.newPassword = newPassword]
        found == ResetTokenRows(token) IN
    /\ Free(p)
    /\ IF token = 0 \/ newPassword = Missing
       THEN Respond(p, "resetPassword", req,
                    ErrorResp(400, "invalid_argument", "Token and new password are required"))
       ELSE IF passwordTooShort(newPassword)
       THEN Respond(p, "resetPassword", req,
                    ErrorResp(400, "invalid_argument",
                              "Password must be at least 6 characters long"))
       ELSE IF found = {}
       THEN Respond(p, "resetPassword", req,
                    ErrorResp(400, "invalid_argument", "Invalid or expired reset token"))
       ELSE LET user == CHOOSE u \in found : TRUE IN
            Goto(p, "reset_update",
                 [IdleLoc EXCEPT !.op = "resetPassword", !.req = req,
                                 !.user = PublicUser(user),
                                 !.snap = {r.jti : r \in {x \in ledger : x.user_id = user.id}}])
    /\ UNCHANGED <<users, ledger, now, issued, nextJti, nextReset, cred, rotated, forced, nextUser, fe>>

\* Mutant: the reset token stays on the row.
clearResetToken_keeps(u) == u

\* SET reset_token = NULL, reset_token_expires = NULL.
clearResetToken(u) == [u EXCEPT !.reset_token = NULL, !.reset_token_expires = NULL]

\* hashPassword and the UPDATE of password_hash that clears the reset token.
reset_update(p) ==
    /\ pc[p] = "reset_update"
    /\ \E salt \in Salts :
        users' = {IF u.id = loc[p].user.id
                  THEN clearResetToken(
                           [u EXCEPT !.password_hash = hashPassword(loc[p].req.newPassword, salt)])
                  ELSE u : u \in users}
    /\ cred' = [cred EXCEPT ![loc[p].user.email].password = loc[p].req.newPassword]
    /\ Goto(p, "reset_revoke", loc[p])
    /\ UNCHANGED <<ledger, now, issued, nextJti, nextReset, rotated, forced, nextUser, fe>>

\* revokeAllUserTokens and the success response.
reset_revoke(p) ==
    /\ pc[p] = "reset_revoke"
    /\ ledger' = revokeAllUserTokens(loc[p].user.id)
    /\ forced' = forced \cup loc[p].snap
    /\ Respond(p, "resetPassword", loc[p].req,
               SuccessResp("Password has been reset successfully. Please sign in with your new password."))
    /\ UNCHANGED <<users, now, issued, nextJti, nextReset, cred, rotated, nextUser, fe>>

\* The access token changePassword reads: the Bearer header, else the cookie.
changeAccessToken(authorization, cookie) ==
    IF authorization # NoToken THEN authorization ELSE cookie

changePassword(p, authorization, cookie, currentPassword, newPassword) ==
    LET req == [NoReq EXCEPT !.authorization = authorization, !.accessCookie = cookie,
                             !.password = currentPassword, !.newPassword = newPassword]
        accessToken == changeAccessToken(authorization, cookie)
        found == UsersById(accessToken.sub) IN
    /\ Free(p)
    /\ IF accessToken = NoToken
       THEN Respond(p, "changePassword", req,
                    ErrorResp(401, "unauthenticated", "No access token provided"))
       ELSE IF currentPassword = Missing \/ newPassword = Missing
       THEN Respond(p, "changePassword", req,
                    ErrorResp(400, "invalid_argument",
                              "Current password and new password are required"))
       ELSE IF passwordTooShort(newPassword)
       THEN Respond(p, "changePassword", req,
                    ErrorResp(400, "invalid_argument",
                              "New password must be at least 6 characters long"))
       ELSE IF extractUserFromToken(accessToken, now) # "ok"
       THEN Respond(p, "changePassword", req,
                    ErrorResp(401, "unauthenticated", extractUserFromToken(accessToken, now)))
       ELSE IF found = {}
       THEN Respond(p, "changePassword", req,
                    ErrorResp(401, "unauthenticated", "User not found"))
       ELSE LET user == CHOOSE u \in found : TRUE IN
            IF ~verifyPassword(currentPassword, user.password_hash)
            THEN Respond(p, "changePassword", req,
                         ErrorResp(400, "invalid_argument", "Current password is incorrect"))
            ELSE Goto(p, "change_update",
                      [IdleLoc EXCEPT !.op = "changePassword", !.req = req,
                                      !.user = PublicUser(user),
                                      !.snap = {r.jti : r \in {x \in ledger : x.user_id = user.id}}])
    /\ UNCHANGED <<users, ledger, now, issued, nextJti, nextReset, cred, rotated, forced, nextUser, fe>>

change_update(p) ==
    /\ pc[p] = "change_update"
    /\ \E salt \in Salts :
        users' = {IF u.id = loc[p].user.id
                  THEN [u EXCEPT !.password_hash = hashPassword(loc[p].req.newPassword, salt)]
                  ELSE u : u \in users}
    /\ cred' = [cred EXCEPT ![loc[p].user.email].password = loc[p].req.newPassword]
    /\ Goto(p, "change_revoke", loc[p])
    /\ UNCHANGED <<ledger, now, issued, nextJti, nextReset, rotated, forced, nextUser, fe>>

change_revoke(p) ==
    /\ pc[p] = "change_revoke"
    /\ ledger' = revokeAllUserTokens(loc[p].user.id)
    /\ forced' = forced \cup loc[p].snap
    /\ Respond(p, "changePassword", loc[p].req, SuccessResp("Password changed successfully"))
    /\ UNCHANGED <<users, now, issued, nextJti, nextReset, cred, rotated, nextUser, fe>>

(***************************************************************************)
(* endpoints/auth.ts: the cleanup job.                                     *)
(***************************************************************************)
cleanupExpiredTokens(p) ==
    LET tokensToDelete == Cardinality({r \in ledger : CleanupMatches(r)}) IN
    /\ Free(p)
    /\ IF tokensToDelete = 0
       THEN Respond(p, "cleanup", NoReq,
                    SuccessResp("No expired or revoked refresh tokens found - database is clean"))
       ELSE Goto(p, "cleanup_delete",
                 [IdleLoc EXCEPT !.op = "cleanup", !.count = tokensToDelete])
    /\ UNCHANGED <<users, ledger, now, issued, nextJti, nextReset, cred, rotated, forced, nextUser, fe>>

cleanup_delete(p) ==
    /\ pc[p] = "cleanup_delete"
    /\ ledger' = {r \in ledger : ~CleanupMatches(r)}
    /\ Respond(p, "cleanup", NoReq,
               [SuccessResp("Successfully cleaned up expired/revoked refresh tokens")
                    EXCEPT !.count = loc[p].count])
    /\ UNCHANGED <<users, now, issued, nextJti, nextReset, cred, rotated, forced, nextUser, fe>>

(***************************************************************************)
(* Changes made to the database from outside the endpoints.  A user row is *)
(* deleted (refresh_tokens.user_id REFERENCES users(id) ON DELETE CASCADE  *)
(* removes the user's ledger rows with it), or its is_verified column is   *)
(* set.                                                                    *)
(***************************************************************************)
DeleteUser(id) ==
    /\ \E u \in users : u.id = id
    /\ users' = {u \in users : u.id # id}
    /\ ledger' = {r \in ledger : r.user_id # id}
    /\ cred' = [e \in Emails |-> IF cred[e].id = id THEN NoCred ELSE cred[e]]
    /\ UNCHANGED <<now, issued, nextJti, nextReset, nextUser, fe, pc, loc, last, seq,
                   rotated, forced>>

VerifyUser(id) ==
    /\ \E u \in users : u.id = id /\ ~u.is_verified
    /\ users' = {IF u.id = id THEN [u EXCEPT !.is_verified = TRUE] ELSE u : u \in users}
    /\ UNCHANGED <<ledger, now, issued, nextJti, nextReset, nextUser, fe, pc, loc, last, seq,
                   cred, rotated, forced>>

(***************************************************************************)
(* The clock advances by d minutes.                                        *)
(***************************************************************************)
Tick(d) ==
    /\ Ticks < MaxTicks
    /\ now' = now + d
    /\ UNCHANGED <<users, ledger, issued, nextJti, nextReset, pc, loc, last, seq,
                   cred, rotated, forced, nextUser, fe>>

(***************************************************************************)
(* Session workload: sign-up, sign-in, refresh rotation, logout and the    *)
(* cleanup job, with two handlers running concurrently and the clock       *)
(* advancing by the lifetime of a refresh token.                           *)
(***************************************************************************)
RefreshTokens == {t \in issued : t.type = "refresh"}

AccessTokens == {t \in issued : t.type = "access"}

RefreshCookieInputs ==
    {NoToken, Malformed} \cup issued \cup {Forge(t) : t \in RefreshTokens}

Next ==
    \/ \E p \in Procs, e \in Emails : signup(p, e, "secret1")
    \/ \E p \in Procs : signup_insert(p)
    \/ \E p \in Procs : signup_store(p)
    \/ \E p \in Procs, e \in Emails : signin(p, e, "secret1")
    \/ \E p \in Procs : signin_store(p)
    \/ \E p \in Procs, c \in RefreshCookieInputs : refresh(p, c)
    \/ \E p \in Procs : refresh_user(p)
    \/ \E p \in Procs : refresh_revoke(p)
    \/ \E p \in Procs : refresh_store(p)
    \/ \E p \in Procs, c \in RefreshCookieInputs : logout(p, c)
    \/ \E p \in Procs : cleanupExpiredTokens(p)
    \/ \E p \in Procs : cleanup_delete(p)
    \/ Tick(LEDGER_EXPIRY)

Spec == Init /\ [][Next]_vars

(***************************************************************************)
(* Password workload: sign-up, sign-in, the three password endpoints and   *)
(* refresh with every kind of request input (missing fields, short         *)
(* passwords, unknown emails, absent, malformed and forged tokens); the    *)
(* requests are handled one after the other.                               *)
(***************************************************************************)
AccessTokenInputs ==
    {NoToken, Malformed} \cup issued \cup {Forge(t) : t \in AccessTokens}

\* Authorization header and access_token cookie of one request.
HeaderCookieInputs ==
    {<<h, NoToken>> : h \in AccessTokenInputs}
        \cup {<<NoToken, c>> : c \in AccessTokens}
        \cup {<<Forge(c), c>> : c \in AccessTokens}

NextPassword ==
    \/ \E e \in {"a@x.com", Missing}, w \in {"secret1", ShortPassword, Missing} :
          signup(1, e, w)
    \/ signup_insert(1)
    \/ signup_store(1)
    \/ \E e \in EmailInputs, w \in Passwords \cup {Missing} : signin(1, e, w)
    \/ signin_store(1)
    \/ \E c \in RefreshTokens : refresh(1, c)
    \/ refresh_user(1)
    \/ refresh_revoke(1)
    \/ refresh_store(1)
    \/ \E e \in EmailInputs : forgotPassword(1, e)
    \/ forgot_update(1)
    \/ \E t \in ResetTokenInputs, w \in PasswordInputs : resetPassword(1, t, w)
    \/ reset_update(1)
    \/ reset_revoke(1)
    \/ \E hc \in HeaderCookieInputs, c \in Passwords \cup {Missing}, w \in PasswordInputs :
          changePassword(1, hc[1], hc[2], c, w)
    \/ change_update(1)
    \/ change_revoke(1)

SpecPassword == Init /\ [][NextPassword]_vars

(***************************************************************************)
(* Forced re-login workload: one user signs up, signs in, refreshes and    *)
(* changes or resets the password, with two handlers running concurrently. *)
(***************************************************************************)
NextForce ==
    \/ \E p \in Procs : signup(p, "a@x.com", "secret1")
    \/ \E p \in Procs : signup_insert(p)
    \/ \E p \in Procs : signup_store(p)
    \/ \E p \in Procs, w \in Passwords : signin(p, "a@x.com", w)
    \/ \E p \in Procs : signin_store(p)
    \/ \E p \in Procs, c \in RefreshTokens : refresh(p, c)
    \/ \E p \in Procs : refresh_user(p)
    \/ \E p \in Procs : refresh_revoke(p)
    \/ \E p \in Procs : refresh_store(p)
    \/ \E p \in Procs : forgotPassword(p, "a@x.com")
    \/ \E p \in Procs : forgot_update(p)
    \/ \E p \in Procs, t \in 1 .. nextReset - 1 : resetPassword(p, t, "secret2")
    \/ \E p \in Procs : reset_update(p)
    \/ \E p \in Procs : reset_revoke(p)
    \/ \E p \in Procs, h \in AccessTokens, c \in Passwords, w \in Passwords :
          changePassword(p, h, NoToken, c, w)
    \/ \E p \in Procs : change_update(p)
    \/ \E p \in Procs : change_revoke(p)

SpecForce == Init /\ [][NextForce]_vars

(***************************************************************************)
(* Identity workload: sign-up, sign-in and me with every combination of    *)
(* Authorization header and access_token cookie, two handlers running      *)
(* concurrently and the clock advancing by the lifetime of an access token.*)
(***************************************************************************)
NextMe ==
    \/ \E p \in Procs, e \in Emails : signup(p, e, "secret1")
    \/ \E p \in Procs : signup_insert(p)
    \/ \E p \in Procs : signup_store(p)
    \/ \E p \in Procs, e \in Emails : signin(p, e, "secret1")
    \/ \E p \in Procs : signin_store(p)
    \/ \E p \in Procs, hc \in HeaderCookieInputs : me(p, hc[1], hc[2])
    \/ Tick(ACCESS_TOKEN_EXPIRY)

SpecMe == Init /\ [][NextMe]_vars

(***************************************************************************)
(* Account workload: sign-up, sign-in and me while user rows are deleted   *)
(* or verified behind the service's back; two handlers run concurrently    *)
(* and the clock advances by the lifetime of an access token.              *)
(***************************************************************************)
NextAccount ==
    \/ \E p \in Procs, e \in Emails : signup(p, e, "secret1")
    \/ \E p \in Procs : signup_insert(p)
    \/ \E p \in Procs : signup_store(p)
    \/ \E p \in Procs, e \in Emails : signin(p, e, "secret1")
    \/ \E p \in Procs : signin_store(p)
    \/ \E p \in Procs, c \in AccessTokens : me(p, NoToken, c)
    \/ \E id \in 1 .. nextUser - 1 : DeleteUser(id)
    \/ \E id \in 1 .. nextUser - 1 : VerifyUser(id)
    \/ Tick(ACCESS_TOKEN_EXPIRY)

SpecAccount == Init /\ [][NextAccount]_vars

(***************************************************************************)
(* Access-token workload: one user signs up and in, refreshes, logs out,   *)
(* changes and resets the password and asks me who they are, one request   *)
(* after the other, while the clock advances by the lifetime of an access  *)
(* token.                                                                  *)
(***************************************************************************)
NextAccess ==
    \/ signup(1, "a@x.com", "secret1")
    \/ signup_insert(1)
    \/ signup_store(1)
    \/ \E w \in Passwords : signin(1, "a@x.com", w)
    \/ signin_store(1)
    \/ \E c \in RefreshTokens : refresh(1, c)
    \/ refresh_user(1)
    \/ refresh_revoke(1)
    \/ refresh_store(1)
    \/ \E c \in RefreshTokens : logout(1, c)
    \/ forgotPassword(1, "a@x.com")
    \/ forgot_update(1)
    \/ \E t \in 1 .. nextReset - 1 : resetPassword(1, t, "secret2")
    \/ reset_update(1)
    \/ reset_revoke(1)
    \/ \E h \in AccessTokens, c \in Passwords, w \in Passwords :
          changePassword(1, h, NoToken, c, w)
    \/ change_update(1)
    \/ change_revoke(1)
    \/ \E c \in AccessTokens : me(1, NoToken, c)
    \/ Tick(ACCESS_TOKEN_EXPIRY)

SpecAccess == Init /\ [][NextAccess]_vars

(***************************************************************************)
(* Ledger workload: every operation that writes refresh_tokens (sign-up,   *)
(* sign-in, refresh, logout, password change and reset, the cleanup job,   *)
(* the deletion of a user), one request after the other, while the clock   *)
(* advances by the lifetime of a refresh token.                            *)
(***************************************************************************)
NextLedger ==
    \/ signup(1, "a@x.com", "secret1")
    \/ signup_insert(1)
    \/ signup_store(1)
    \/ signin(1, "a@x.com", "secret1")
    \/ signin_store(1)
    \/ \E c \in RefreshTokens : refresh(1, c)
    \/ refresh_user(1)
    \/ refresh_revoke(1)
    \/ refresh_store(1)
    \/ \E c \in RefreshTokens : logout(1, c)
    \/ forgotPassword(1, "a@x.com")
    \/ forgot_update(1)
    \/ \E t \in 1 .. nextReset - 1 : resetPassword(1, t, "secret1")
    \/ reset_update(1)
    \/ reset_revoke(1)
    \/ \E h \in AccessTokens : changePassword(1, h, NoToken, "secret1", "secret1")
    \/ change_update(1)
    \/ change_revoke(1)
    \/ cleanupExpiredTokens(1)
    \/ cleanup_delete(1)
    \/ \E id \in 1 .. nextUser - 1 : DeleteUser(id)
    \/ Tick(LEDGER_EXPIRY)

SpecLedger == Init /\ [][NextLedger]_vars

(***************************************************************************)
(* Reset workload: sign-up, forgotPassword and resetPassword with tokens   *)
(* that are current, used, expired or unknown; two handlers run            *)
(* concurrently and the clock advances by half and by the whole lifetime   *)
(* of a reset token.                                                       *)
(***************************************************************************)
NextReset ==
    \/ \E p \in Procs : signup(p, "a@x.com", "secret1")
    \/ \E p \in Procs : signup_insert(p)
    \/ \E p \in Procs : signup_store(p)
    \/ \E p \in Procs, e \in Emails : forgotPassword(p, e)
    \/ \E p \in Procs : forgot_update(p)
    \/ \E p \in Procs, t \in ResetTokenInputs \ {0} : resetPassword(p, t, "secret2")
    \/ \E p \in Procs : reset_update(p)
    \/ \E p \in Procs : reset_revoke(p)
    \/ Tick(ACCESS_TOKEN_EXPIRY)
    \/ Tick(RESET_TOKEN_EXPIRY)

SpecReset == Init /\ [][NextReset]_vars

(***************************************************************************)
(* Token-type workload: every endpoint that reads a token is given every   *)
(* issued token and every variant of it signed with the access secret, the *)
(* refresh secret or a foreign key and typed access or refresh; requests   *)
(* are handled one after the other.                                        *)
(***************************************************************************)
TokenVariants(token) ==
    {[token EXCEPT !.key = k, !.type = ty] :
        k \in {JWT_ACCESS_SECRET, JWT_REFRESH_SECRET, ForeignSecret},
        ty \in {"access", "refresh"}}

TokenUniverse == UNION {TokenVariants(t) : t \in issued}

NextTypes ==
    \/ signup(1, "a@x.com", "secret1")
    \/ signup_insert(1)
    \/ signup_store(1)
    \/ \E c \in TokenUniverse : refresh(1, c)
    \/ refresh_user(1)
    \/ refresh_revoke(1)
    \/ refresh_store(1)
    \/ \E c \in TokenUniverse : logout(1, c)
    \/ \E c \in TokenUniverse : me(1, NoToken, c)
    \/ \E h \in TokenUniverse : changePassword(1, h, NoToken, "secret1", "secret1")
    \/ change_update(1)
    \/ change_revoke(1)

SpecTypes == Init /\ [][NextTypes]_vars

(***************************************************************************)
(* A handler stops between two statements (the process is killed): the     *)
(* statements it has run stay committed, the request gets no answer.       *)
(***************************************************************************)
Crash(p) ==
    /\ pc[p] # "idle"
    /\ pc' = [pc EXCEPT ![p] = "idle"]
    /\ loc' = [loc EXCEPT ![p] = IdleLoc]
    /\ UNCHANGED <<users, ledger, now, issued, nextJti, nextReset, nextUser, fe, last, seq,
                   cred, rotated, forced>>

(***************************************************************************)
(* Race workload: one user signs up; two handlers refresh and log out with *)
(* the issued refresh tokens and run the cleanup job concurrently, a       *)
(* handler in refresh may stop between its statements, and the clock       *)
(* advances by the lifetime of an access token.                            *)
(***************************************************************************)
NextRace ==
    \/ \E p \in Procs : signup(p, "a@x.com", "secret1")
    \/ \E p \in Procs : signup_insert(p)
    \/ \E p \in Procs : signup_store(p)
    \/ \E p \in Procs, c \in RefreshTokens : refresh_within(p, c, MaxRaceTokens)
    \/ \E p \in Procs : refresh_user(p)
    \/ \E p \in Procs : refresh_revoke(p)
    \/ \E p \in Procs : refresh_store(p)
    \/ \E p \in Procs, c \in RefreshTokens : logout(p, c)
    \/ \E p \in Procs : pc[p] \in {"refresh_user", "refresh_revoke", "refresh_store"} /\ Crash(p)
    \/ \E p \in Procs : cleanupExpiredTokens(p)
    \/ \E p \in Procs : cleanup_delete(p)
    \/ Tick(ACCESS_TOKEN_EXPIRY)

SpecRace == Init /\ [][NextRace]_vars

(***************************************************************************)
(* Frame workload: two users sign up, sign in and log out, and change or   *)
(* reset their passwords, one request after the other, while the clock     *)
(* advances by the lifetime of an access token.                            *)
(***************************************************************************)
NextFrame ==
    \/ \E e \in Emails : signup(1, e, "secret1")
    \/ signup_insert(1)
    \/ signup_store(1)
    \/ \E e \in Emails : signin(1, e, "secret1")
    \/ signin_store(1)
    \/ \E c \in RefreshTokens : logout(1, c)
    \/ \E e \in Emails : forgotPassword(1, e)
    \/ forgot_update(1)
    \/ \E t \in 1 .. nextReset - 1 : resetPassword(1, t, "secret1")
    \/ reset_update(1)
    \/ reset_revoke(1)
    \/ \E h \in AccessTokens : changePassword(1, h, NoToken, "secret1", "secret1")
    \/ change_update(1)
    \/ change_revoke(1)
    \/ Tick(ACCESS_TOKEN_EXPIRY)

SpecFrame == Init /\ [][NextFrame]_vars

(***************************************************************************)
(* Issue workload: two users sign up, sign in, refresh and log out, one    *)
(* request after the other, while the clock advances by the lifetime of a  *)
(* refresh token.                                                          *)
(***************************************************************************)
NextIssue ==
    \/ \E e \in Emails : signup(1, e, "secret1")
    \/ signup_insert(1)
    \/ signup_store(1)
    \/ \E e \in Emails : signin(1, e, "secret1")
    \/ signin_store(1)
    \/ \E c \in RefreshTokens : refresh_within(1, c, MaxRaceTokens)
    \/ refresh_user(1)
    \/ refresh_revoke(1)
    \/ refresh_store(1)
    \/ \E c \in RefreshTokens : logout(1, c)
    \/ Tick(LEDGER_EXPIRY)

SpecIssue == Init /\ [][NextIssue]_vars

(***************************************************************************)
(* The frontend: store/authSlice.ts, services/api.ts (authApi) and         *)
(* services/tokenService.ts, in one browser that talks to handler 1.       *)
(***************************************************************************)
backendVars == <<users, ledger, now, issued, nextJti, nextReset, nextUser, pc, loc,
                 last, seq, cred, rotated, forced>>

\* TokenService: localStorage comes first; the cookies are HttpOnly, so
\* document.cookie never shows them.
getToken == fe.localAccess

isTokenExpired(token) == token.kind # "jwt" \/ token.exp < now

TokenService_isAuthenticated == getToken # NoToken /\ ~isTokenExpired(getToken)

getUserFromToken ==
    [id |-> getToken.sub, email |-> getToken.email, is_verified |-> getToken.is_verified]

clearTokens(s) == [s EXCEPT !.localAccess = NoToken, !.localRefresh = NoToken]

\* The browser keeps a cookie for its Max-Age and applies Set-Cookie.
BrowserCookie(cookie) == IF cookie.exp > now THEN cookie ELSE NoToken

StoreCookies(s, resp) ==
    CASE resp.cookies = "set" ->
             [s EXCEPT !.cookieAccess = resp.access, !.cookieRefresh = resp.refresh]
      [] resp.cookies = "cleared" ->
             [s EXCEPT !.cookieAccess = NoToken, !.cookieRefresh = NoToken]
      [] OTHER -> s

\* The reducers of the slice.
Pending(s) == [s EXCEPT !.isLoading = TRUE, !.error = ""]

CheckFulfilled(s, user) ==
    [s EXCEPT !.isLoading = FALSE, !.user = user, !.isAuthenticated = TRUE,
              !.error = "", !.isInitialized = TRUE,
              !.thunk = "idle", !.settled = "checkAuthStatus"]

CheckRejected(s) ==
    [s EXCEPT !.isLoading = FALSE, !.user = NoUser, !.isAuthenticated = FALSE,
              !.error = "", !.isInitialized = TRUE,
              !.thunk = "idle", !.settled = "checkAuthStatus"]

SignupFulfilled(s, user) ==
    [s EXCEPT !.isLoading = FALSE, !.user = user, !.isAuthenticated = TRUE,
              !.error = "", !.thunk = "idle", !.settled = "signupUser"]

SignupRejected(s, message) ==
    [s EXCEPT !.isLoading = FALSE, !.user = NoUser, !.isAuthenticated = FALSE,
              !.error = message, !.thunk = "idle", !.settled = "signupUser"]

LogoutFulfilled(s) ==
    [s EXCEPT !.isLoading = FALSE, !.user = NoUser, !.isAuthenticated = FALSE,
              !.error = "", !.thunk = "idle", !.settled = "logoutUser"]

\* The request of the running thunk has not reached the server yet; the
\* server has answered it.
Awaiting(stage) == fe.thunk = stage /\ fe.sent = seq /\ pc[1] = "idle"

Settled(stage) == fe.thunk = stage /\ fe.sent # seq /\ pc[1] = "idle"

Send(s, stage) == [s EXCEPT !.thunk = stage, !.sent = seq]

\* signupUser: authApi.register stores data.token, the reducers follow.
signupUser ==
    /\ fe.thunk = "idle"
    /\ fe' = Send(Pending(fe), "signup")
    /\ UNCHANGED backendVars

signupUser_settle ==
    /\ Settled("signup")
    /\ fe' = IF last.resp.status = 200
             THEN SignupFulfilled(
                      StoreCookies([fe EXCEPT !.localAccess = last.resp.access], last.resp),
                      last.resp.user)
             ELSE SignupRejected(fe, last.resp.message)
    /\ UNCHANGED backendVars

\* logoutUser: authApi.logout awaits the request and then clears the tokens;
\* the thunk returns null whether or not authApi.logout threw.
logoutUser ==
    /\ fe.thunk = "idle"
    /\ fe' = Send(Pending(fe), "logout")
    /\ UNCHANGED backendVars

logoutUser_settle ==
    /\ Settled("logout")
    /\ fe' = LogoutFulfilled(StoreCookies(clearTokens(fe), last.resp))
    /\ UNCHANGED backendVars

\* fetch rejects (the server is unreachable): the await in authApi.logout
\* throws before TokenService.clearTokens() is reached.
logoutUser_networkError ==
    /\ Awaiting("logout")
    /\ fe' = LogoutFulfilled(fe)
    /\ UNCHANGED backendVars

\* checkAuthStatus up to its first request.
checkAuthStatus ==
    /\ fe.thunk = "idle"
    /\ fe' = IF ~TokenService_isAuthenticated
             THEN CheckRejected(Pending(fe))
             ELSE Send(Pending(fe), "check_me")
    /\ UNCHANGED backendVars

\* The generated client (lib/client) either throws on a response that is
\* not ok or hands the Response back; both are followed.
check_me_settle ==
    /\ Settled("check_me")
    /\ \E throws \in BOOLEAN :
          fe' = IF last.resp.status = 200 THEN CheckFulfilled(fe, last.resp.user)
                ELSE IF throws THEN CheckFulfilled(fe, getUserFromToken)
                ELSE Send(fe, "check_fallback")
    /\ UNCHANGED backendVars

check_me_networkError ==
    /\ Awaiting("check_me")
    /\ fe' = CheckFulfilled(fe, getUserFromToken)
    /\ UNCHANGED backendVars

\* The fallback call of me and the outer catch.
check_fallback_settle ==
    /\ Settled("check_fallback")
    /\ \E throws \in BOOLEAN :
          fe' = IF last.resp.status = 200 THEN CheckFulfilled(fe, last.resp.user)
                ELSE IF throws /\ last.resp.status = 401 THEN Send(fe, "check_refresh")
                ELSE CheckRejected(clearTokens(fe))
    /\ UNCHANGED backendVars

check_refresh_settle ==
    /\ Settled("check_refresh")
    /\ fe' = IF last.resp.status = 200
             THEN Send(StoreCookies(fe, last.resp), "check_retry")
             ELSE CheckRejected(clearTokens(fe))
    /\ UNCHANGED backendVars

check_retry_settle ==
    /\ Settled("check_retry")
    /\ fe' = IF last.resp.status = 200 THEN CheckFulfilled(fe, last.resp.user)
             ELSE CheckRejected(clearTokens(fe))
    /\ UNCHANGED backendVars

\* The page is loaded again: the store starts from initialState, localStorage
\* and the cookie jar stay.
Reload ==
    /\ fe.thunk = "idle"
    /\ fe.isInitialized
    /\ fe' = [FrontendInit EXCEPT !.localAccess = fe.localAccess,
                                  !.localRefresh = fe.localRefresh,
                                  !.cookieAccess = fe.cookieAccess,
                                  !.cookieRefresh = fe.cookieRefresh]
    /\ UNCHANGED backendVars

(***************************************************************************)
(* Frontend workload: one browser signs up, checks its authentication,     *)
(* logs out and reloads; handler 1 serves its requests; the network may    *)
(* fail; the clock advances by the lifetime of an access token.            *)
(***************************************************************************)
NextFrontend ==
    \/ signupUser
    \/ Awaiting("signup") /\ signup(1, "a@x.com", "secret1")
    \/ signup_insert(1)
    \/ signup_store(1)
    \/ signupUser_settle
    \/ logoutUser
    \/ Awaiting("logout") /\ logout(1, BrowserCookie(fe.cookieRefresh))
    \/ logoutUser_settle
    \/ logoutUser_networkError
    \/ checkAuthStatus
    \/ \E stage \in {"check_me", "check_fallback", "check_retry"} :
          Awaiting(stage) /\ me(1, fe.localAccess, BrowserCookie(fe.cookieAccess))
    \/ check_me_settle
    \/ check_me_networkError
    \/ check_fallback_settle
    \/ Awaiting("check_refresh") /\ refresh(1, BrowserCookie(fe.cookieRefresh))
    \/ refresh_user(1)
    \/ refresh_revoke(1)
    \/ refresh_store(1)
    \/ check_refresh_settle
    \/ check_retry_settle
    \/ Reload
    \/ Tick(ACCESS_TOKEN_EXPIRY)

SpecFrontend == Init /\ [][NextFrontend]_vars

(***************************************************************************)
(* Vocabulary of the properties.                                           *)
(***************************************************************************)
\* The ledger holds a row for jti that is neither revoked nor expired.
LedgerTrusts(jti) ==
    \E r \in ledger : r.jti = jti /\ ~r.revoked /\ r.expires_at > now

\* This step answers a request; the response is last'.
Answers(op) == seq' # seq /\ last'.op = op

\* This step answers a request in the handler's first step (no earlier
\* statement of the same request has run).
AnswersAtOnce(op) == Answers(op) /\ pc' = pc

Unauthenticated(resp) == resp.status = 401 /\ resp.code = "unauthenticated"

\* The token carries a signature made with the refresh secret.
SignedAsRefresh(token) == token.kind = "jwt" /\ token.key = JWT_REFRESH_SECRET

(***************************************************************************)
(* C1. Refresh rotation: once a refresh presenting the token with jti J    *)
(* has succeeded, the ledger no longer trusts J, and every refresh request *)
(* made afterwards with that token is answered 401 unauthenticated without *)
(* passing the ledger check and without any change of the ledger.          *)
(***************************************************************************)
C1_RefreshRotation ==
    [][ /\ \A j \in rotated' : ~LedgerTrusts(j)'
        /\ \A p \in Procs :
              (pc[p] = "idle" /\ pc'[p] = "refresh_user")
                  => loc'[p].req.refreshCookie.jti \notin rotated
        /\ (AnswersAtOnce("refresh") /\ last'.req.refreshCookie.jti \in rotated)
              => (Unauthenticated(last'.resp) /\ ledger' = ledger) ]_vars

\* A stale but correctly signed, unexpired refresh token has been rejected.
C1_Witness ==
    /\ last.op = "refresh"
    /\ last.req.refreshCookie \in RefreshTokens
    /\ last.req.refreshCookie.jti \in rotated
    /\ last.req.refreshCookie.exp > now
    /\ Unauthenticated(last.resp)
    /\ last.resp.message = "Refresh token revoked or expired"

(***************************************************************************)
(* C2. The ledger decides: a refresh passes its ledger check only when the *)
(* ledger holds an unrevoked, unexpired row for the presented jti; a       *)
(* correctly signed token whose jti the ledger does not trust is answered  *)
(* 401 unauthenticated and the ledger stays as it was; and a refresh is    *)
(* answered with a new token pair only by a handler that passed the check. *)
(***************************************************************************)
C2_LedgerDecides ==
    [][ /\ \A p \in Procs :
              (pc[p] = "idle" /\ pc'[p] = "refresh_user")
                  => LedgerTrusts(loc'[p].req.refreshCookie.jti)
        /\ (AnswersAtOnce("refresh")
              /\ SignedAsRefresh(last'.req.refreshCookie)
              /\ ~LedgerTrusts(last'.req.refreshCookie.jti))
              => (Unauthenticated(last'.resp) /\ ledger' = ledger)
        /\ (Answers("refresh") /\ last'.resp.status = 200)
              => \E p \in Procs : pc[p] = "refresh_store" /\ pc'[p] = "idle" ]_vars

\* A correctly signed, unexpired refresh token whose row the cleanup job
\* has deleted has been rejected.
C2_Witness ==
    /\ last.op = "refresh"
    /\ last.req.refreshCookie \in RefreshTokens
    /\ last.req.refreshCookie.exp > now
    /\ \A r \in ledger : r.jti # last.req.refreshCookie.jti
    /\ Unauthenticated(last.resp)

C4_Credentials ==
    [][ /\ \A p \in Procs :
              (pc[p] = "idle" /\ pc'[p] = "signin_store")
                  => LET r == loc'[p].req IN
                     /\ r.email \in Emails
                     /\ cred[r.email] # NoCred
                     /\ cred[r.email].password = r.password
                     /\ loc'[p].user.id = cred[r.email].id
        /\ AnswersAtOnce("signin")
              => LET r == last'.req IN
                 /\ last'.resp.status # 200
                 /\ ~(/\ r.email \in Emails
                      /\ cred[r.email] # NoCred
                      /\ cred[r.email].password = r.password)
                 /\ (r.email \in Emails /\ cred[r.email] # NoCred /\ r.password # Missing)
                        => Unauthenticated(last'.resp)
        /\ (Answers("signin") /\ ~AnswersAtOnce("signin"))
              => /\ last'.resp.status = 200
                 /\ last'.resp.user.id = cred[last'.req.email].id
                 /\ last'.resp.user.email = last'.req.email
                 /\ last'.resp.access.sub = cred[last'.req.email].id ]_vars

\* The password set at signup has been refused after it was replaced.
C4_Witness ==
    /\ last.op = "signin"
    /\ last.req.email = "a@x.com"
    /\ last.req.password = "secret1"
    /\ cred["a@x.com"].password = "secret2"
    /\ Unauthenticated(last.resp)

(***************************************************************************)
(* C5. Duplicate sign-up: no two users share an email, and every signup    *)
(* with an email and an acceptable password is answered either with the    *)
(* new user (200) or with 409 already_exists; of two concurrent signups    *)
(* for one email the second is answered 409.                               *)
(***************************************************************************)
C5_DuplicateSignup ==
    /\ \A u1 \in users, u2 \in users : u1.email = u2.email => u1 = u2
    /\ (last.op = "signup" /\ last.req.email \in Emails /\ last.req.password \in Passwords)
          => \/ last.resp.status = 200
             \/ last.resp.status = 409 /\ last.resp.code = "already_exists"

(***************************************************************************)
(* C6. Validation before any write: a signup, resetPassword or             *)
(* changePassword request with a missing field or a password shorter than  *)
(* 6 characters never reaches a write statement; it is answered in the     *)
(* handler's first step, and that step leaves the users table and the      *)
(* ledger exactly as they were.  Every 400 answer that names a missing     *)
(* field or the password length is given in that first step.               *)
(***************************************************************************)
BadPassword(w) == w = Missing \/ Len(w) < 6

BadRequest(op, r) ==
    CASE op = "signup" -> r.email = Missing \/ BadPassword(r.password)
      [] op = "resetPassword" -> r.token = 0 \/ BadPassword(r.newPassword)
      [] op = "changePassword" -> r.password = Missing \/ BadPassword(r.newPassword)
      [] OTHER -> FALSE

ValidationMessages ==
    {"Email and password are required",
     "Password must be at least 6 characters long",
     "Token and new password are required",
     "Current password and new password are required",
     "New password must be at least 6 characters long"}

C6_ValidationFirst ==
    [][ /\ \A p \in Procs :
              (pc[p] = "idle" /\ pc'[p] # "idle") => ~BadRequest(loc'[p].op, loc'[p].req)
        /\ \A op \in {"signup", "resetPassword", "changePassword"} :
              /\ (Answers(op) /\ BadRequest(op, last'.req))
                    => /\ AnswersAtOnce(op)
                       /\ last'.resp.status \in {400, 401}
                       /\ (last'.resp.status = 401
                              => op = "changePassword"
                                   /\ last'.req.authorization = NoToken
                                   /\ last'.req.accessCookie = NoToken)
                       /\ users' = users /\ ledger' = ledger /\ cred' = cred
              /\ (Answers(op) /\ last'.resp.message \in ValidationMessages)
                    => /\ AnswersAtOnce(op)
                       /\ BadRequest(op, last'.req)
                       /\ last'.resp.status = 400
                       /\ users' = users /\ ledger' = ledger ]_vars

\* An authenticated changePassword with a three-character new password has
\* been rejected while the user's password stayed what it was.
C6_Witness ==
    /\ last.op = "changePassword"
    /\ last.req.authorization \in AccessTokens
    /\ last.req.password = "secret1"
    /\ last.req.newPassword = ShortPassword
    /\ last.resp.status = 400
    /\ last.resp.message = "New password must be at least 6 characters long"
    /\ cred["a@x.com"].password = "secret1"

(***************************************************************************)
(* C7. No account enumeration at signin: a signin with an email no user    *)
(* has, and a signin with a wrong password for an existing user, get the   *)
(* same answer, 401 unauthenticated "Invalid email or password" with no    *)
(* cookies, and neither changes the users table or the ledger or issues a  *)
(* token.                                                                  *)
(***************************************************************************)
C7_SameRefusal ==
    [][ AnswersAtOnce("signin")
          => LET r == last'.req
                 unknown == \A u \in users : u.email # r.email
                 wrong == r.email \in Emails /\ cred[r.email] # NoCred
                              /\ cred[r.email].password # r.password IN
             (r.email # Missing /\ r.password # Missing /\ (unknown \/ wrong))
                 => /\ last'.resp = ErrorResp(401, "unauthenticated",
                                              "Invalid email or password")
                    /\ last'.resp.cookies = "none"
                    /\ users' = users /\ ledger' = ledger /\ issued' = issued ]_vars

\* A signin for an email nobody registered has been refused while another
\* user exists.
C7_Witness ==
    /\ last.op = "signin"
    /\ last.req.email = "b@x.com"
    /\ last.req.password = "secret1"
    /\ users # {}
    /\ \A u \in users : u.email # "b@x.com"
    /\ last.resp = ErrorResp(401, "unauthenticated", "Invalid email or password")

(***************************************************************************)
(* C8. forgotPassword.  As first stated: every forgotPassword request,     *)
(* whatever email it submits, is answered success with the one generic     *)
(* message.                                                                *)
(***************************************************************************)
C8_AlwaysGeneric ==
    last.op = "forgotPassword"
        => /\ last.resp.status = 200
           /\ last.resp.success
           /\ last.resp.message = GenericForgotMessage

(***************************************************************************)
(* C8, amended.  A forgotPassword request without an email is answered 400 *)
(* invalid_argument "Email is required" and writes nothing.  Every request *)
(* with a non-empty email gets the same success answer whether or not a    *)
(* user has that email; when one has, a fresh reset token is stored on     *)
(* that user's row with an expiry one hour (60 minutes) after the request, *)
(* and nothing else is written; when none has, nothing is written.         *)
(***************************************************************************)
WithoutResetToken(u) == [u EXCEPT !.reset_token = NULL, !.reset_token_expires = NULL]

C8_ForgotPassword ==
    [][ Answers("forgotPassword")
          => LET e == last'.req.email IN
             /\ ledger' = ledger /\ cred' = cred
             /\ IF e = Missing
                THEN /\ last'.resp = ErrorResp(400, "invalid_argument", "Email is required")
                     /\ users' = users
                ELSE /\ last'.resp = SuccessResp(GenericForgotMessage)
                     /\ last'.resp.cookies = "none"
                     /\ {u \in users' : u.email # e} = {u \in users : u.email # e}
                     /\ {WithoutResetToken(u) : u \in users'}
                            = {WithoutResetToken(u) : u \in users}
                     /\ \A u \in users' :
                           u.email = e
                               => /\ u.reset_token = nextReset
                                  /\ \A v \in users : v.reset_token # u.reset_token
                                  /\ u.reset_token_expires = now + 60
                     /\ (\A u \in users : u.email # e) => users' = users ]_vars

\* An existing user holds the reset token a forgotPassword request stored,
\* and a request for an unregistered email got the same answer.
C8_Witness ==
    /\ last.op = "forgotPassword"
    /\ last.req.email = "b@x.com"
    /\ \A u \in users : u.email # "b@x.com"
    /\ last.resp = SuccessResp(GenericForgotMessage)
    /\ \E u \in users : u.email = "a@x.com" /\ u.reset_token # NULL
                           /\ u.reset_token_expires = now + 60

C10_MeReadsHeader ==
    last.op = "me"
        => LET h == last.req.authorization
               c == last.req.accessCookie IN
           /\ (h \in AccessTokens /\ h.exp > now /\ c = NoToken)
                 => last.resp.status = 200 /\ last.resp.user.id = h.sub
           /\ (h = NoToken /\ c \in AccessTokens /\ c.exp > now)
                 => last.resp.status = 200 /\ last.resp.user.id = c.sub
           /\ (h = NoToken /\ c = NoToken) => Unauthenticated(last.resp)

(***************************************************************************)
(* C11. A valid access token is not enough for me: when no user row has    *)
(* the id the token names, me answers 401 unauthenticated; when me answers *)
(* 200, the id, email and is_verified it returns are those of the user row *)
(* as it is now, whatever the token says.                                  *)
(***************************************************************************)
C11_MeReadsTheRow ==
    [][ Answers("me")
          => LET c == last'.req.accessCookie IN
             /\ (\A u \in users : u.id # c.sub) => Unauthenticated(last'.resp)
             /\ last'.resp.status = 200
                   => \E u \in users :
                         /\ u.id = c.sub
                         /\ last'.resp.user = [id |-> u.id, email |-> u.email,
                                               is_verified |-> u.is_verified] ]_vars

\* me has refused a genuine, unexpired access token whose user was deleted.
C11_Witness ==
    /\ last.op = "me"
    /\ last.req.accessCookie \in AccessTokens
    /\ last.req.accessCookie.exp > now
    /\ \A u \in users : u.id # last.req.accessCookie.sub
    /\ Unauthenticated(last.resp)
    /\ last.resp.message = "User not found"

(***************************************************************************)
(* C12. Access tokens are not revocable: whatever logout, refresh          *)
(* rotation, changePassword or resetPassword has done to the ledger, me    *)
(* answers 200 for an issued access token that has not reached its expiry  *)
(* and whose user row exists, and changePassword does not refuse such a    *)
(* token as unauthenticated; from its expiry on, both answer 401.          *)
(***************************************************************************)
C12_AccessTokenOutlivesSessions ==
    [][ /\ Answers("me")
          => LET c == last'.req.accessCookie IN
             (c \in AccessTokens /\ \E u \in users : u.id = c.sub)
                 => IF c.exp > now
                    THEN last'.resp.status = 200 /\ last'.resp.user.id = c.sub
                    ELSE Unauthenticated(last'.resp)
        /\ AnswersAtOnce("changePassword")
          => LET h == last'.req.authorization IN
             (h \in AccessTokens /\ \E u \in users : u.id = h.sub)
                 => IF h.exp > now
                    THEN last'.resp = ErrorResp(400, "invalid_argument",
                                                "Current password is incorrect")
                    ELSE Unauthenticated(last'.resp)
        /\ \A p \in Procs :
              (pc[p] = "idle" /\ pc'[p] = "change_update")
                 => loc'[p].req.authorization.exp > now ]_vars

\* me has answered 200 for an access token issued before a password change
\* or reset, while every ledger row of its user was revoked.
C12_Witness ==
    /\ last.op = "me"
    /\ last.resp.status = 200
    /\ forced # {}
    /\ \E r \in ledger : r.user_id = last.req.accessCookie.sub
    /\ \A r \in ledger : r.user_id = last.req.accessCookie.sub => r.revoked

(***************************************************************************)
(* C13. Ledger row lifecycle: no two rows share a jti; across every step a *)
(* row keeps its jti, user_id and expires_at, and a revoked row stays      *)
(* revoked; a row disappears only in the DELETE of the cleanup job (and    *)
(* then it was expired or revoked) or together with its deleted user.      *)
(***************************************************************************)
C13_RowLifecycle ==
    [][ /\ \A r1 \in ledger', r2 \in ledger' : r1.jti = r2.jti => r1 = r2
        /\ \A r \in ledger :
              \/ \E x \in ledger' :
                    /\ x.jti = r.jti /\ x.user_id = r.user_id
                    /\ x.expires_at = r.expires_at
                    /\ r.revoked => (x.revoked /\ x.revoked_at = r.revoked_at)
              \/ /\ \A x \in ledger' : x.jti # r.jti
                 /\ \/ /\ \E p \in Procs : pc[p] = "cleanup_delete" /\ pc'[p] = "idle"
                       /\ (r.expires_at < now \/ r.revoked)
                    \/ /\ \E u \in users : u.id = r.user_id
                       /\ \A u \in users' : u.id # r.user_id ]_vars

\* The cleanup job has deleted the revoked row of a user who still exists
\* and has left the user's live row in place.
C13_Witness ==
    /\ last.op = "cleanup"
    /\ last.resp.count = 1
    /\ users # {} /\ nextUser = 2
    /\ \E r \in ledger : ~r.revoked
    /\ \E j \in 1 .. nextJti - 1 : \A r \in ledger : r.jti # j

(***************************************************************************)
(* C14. The cleanup job: its DELETE removes exactly the rows that are      *)
(* expired (expires_at < now) or revoked when it runs; it removes no row   *)
(* the ledger trusts and leaves no revoked row behind; a run that counts   *)
(* no such row answers success at once and deletes nothing.                *)
(***************************************************************************)
C14_CleanupExact ==
    [][ /\ \A p \in Procs :
              (pc[p] = "cleanup_delete" /\ pc'[p] = "idle")
                 => /\ ledger' = {r \in ledger : ~(r.expires_at < now \/ r.revoked)}
                    /\ \A r \in ledger : LedgerTrusts(r.jti) => r \in ledger'
                    /\ \A r \in ledger' : ~r.revoked
                    /\ last'.op = "cleanup" /\ last'.resp.success
        /\ AnswersAtOnce("cleanup")
              => /\ last'.resp.status = 200 /\ last'.resp.success
                 /\ \A r \in ledger : ~(r.expires_at < now \/ r.revoked)
                 /\ ledger' = ledger ]_vars

\* The job has deleted a row and kept one whose expires_at is exactly now.
C14_Witness ==
    /\ last.op = "cleanup"
    /\ last.resp.count > 0
    /\ \E j \in 1 .. nextJti - 1 : \A r \in ledger : r.jti # j
    /\ \E r \in ledger : r.expires_at = now /\ ~r.revoked

(***************************************************************************)
(* C15. changePassword keeps the current session: when the call completes, *)
(* a ledger row of the session that made the request (the row stored with  *)
(* the access token the request carried, for the same user at the same     *)
(* time) that the ledger trusted before the call is still trusted.         *)
(***************************************************************************)
SessionRows(accessToken) ==
    {r \in ledger : /\ r.user_id = accessToken.sub
                    /\ r.expires_at - LEDGER_EXPIRY = accessToken.exp - ACCESS_TOKEN_EXPIRY}

C15_KeepsCurrentSession ==
    [][ \A p \in Procs :
          (pc[p] = "change_revoke" /\ pc'[p] = "idle")
             => LET current == SessionRows(loc[p].req.authorization) IN
                (\E r \in current : LedgerTrusts(r.jti))
                    => \E r \in current : LedgerTrusts(r.jti)' ]_vars

(***************************************************************************)
(* C16. resetPassword goes on to change a password only when some user row *)
(* holds the presented token with reset_token_expires strictly later than  *)
(* now; a well-formed request whose token is held by no row, or by a row   *)
(* whose reset_token_expires is now or earlier, is answered 400            *)
(* invalid_argument "Invalid or expired reset token" and changes neither   *)
(* the users table nor the ledger.                                         *)
(***************************************************************************)
C16_ResetTokenExpiry ==
    [][ /\ \A p \in Procs :
              (pc[p] = "idle" /\ pc'[p] = "reset_update")
                 => \E u \in users :
                       /\ u.reset_token = loc'[p].req.token
                       /\ u.reset_token_expires > now
                       /\ loc'[p].user.id = u.id
        /\ (AnswersAtOnce("resetPassword")
               /\ last'.req.token # 0 /\ last'.req.newPassword \in Passwords)
              => /\ \A u \in users : u.reset_token = last'.req.token
                                        => u.reset_token_expires <= now
                 /\ last'.resp = ErrorResp(400, "invalid_argument",
                                           "Invalid or expired reset token")
                 /\ users' = users /\ ledger' = ledger /\ cred' = cred ]_vars

\* A reset token presented at the very minute it expires has been refused.
C16_Witness ==
    /\ last.op = "resetPassword"
    /\ \E u \in users : u.reset_token = last.req.token /\ u.reset_token_expires = now
    /\ last.resp.message = "Invalid or expired reset token"
    /\ cred["a@x.com"].password = "secret1"

(***************************************************************************)
(* C17. A reset token is single-use: the UPDATE of a successful            *)
(* resetPassword leaves the user's reset_token and reset_token_expires     *)
(* null; when the call answers, no row holds the token; and a              *)
(* resetPassword that follows with the same token is answered 400          *)
(* invalid_argument and changes nothing.                                   *)
(***************************************************************************)
C17_ResetTokenSingleUse ==
    [][ /\ \A p \in Procs :
              (pc[p] = "reset_update" /\ pc'[p] = "reset_revoke")
                 => \A u \in users' :
                       u.id = loc[p].user.id
                          => u.reset_token = NULL /\ u.reset_token_expires = NULL
        /\ \A p \in Procs :
              (pc[p] = "reset_revoke" /\ pc'[p] = "idle")
                 => \A u \in users' : u.reset_token # loc[p].req.token
        /\ (AnswersAtOnce("resetPassword")
               /\ last.op = "resetPassword" /\ last.resp.success
               /\ last'.req.token = last.req.token)
              => /\ last'.resp.status = 400 /\ last'.resp.code = "invalid_argument"
                 /\ users' = users /\ ledger' = ledger /\ cred' = cred ]_vars

\* A token that had reset the password a moment ago, and would not have
\* expired yet, has been refused.
C17_Witness ==
    /\ last.op = "resetPassword"
    /\ last.req.token \in 1 .. nextReset - 1
    /\ \A u \in users : u.reset_token # last.req.token
    /\ last.resp.message = "Invalid or expired reset token"
    /\ cred["a@x.com"].password = "secret2"
    /\ now = 0

(***************************************************************************)
(* C18. Access and refresh tokens are not interchangeable: refresh gets    *)
(* past validation, and logout revokes, only with a token signed with the  *)
(* refresh secret and typed "refresh"; me answers 200, and changePassword  *)
(* gets past validation, only with a token signed with the access secret   *)
(* and typed "access"; the two validators accept nothing else.             *)
(***************************************************************************)
IsAccessToken(token) ==
    token.kind = "jwt" /\ token.key = "access-secret" /\ token.type = "access"

IsRefreshToken(token) ==
    token.kind = "jwt" /\ token.key = "refresh-secret" /\ token.type = "refresh"

C18_TokenTypes ==
    [][ /\ \A t \in TokenUniverse :
              /\ validateAccessToken(t, now) = "ok" => IsAccessToken(t)
              /\ validateRefreshToken(t, now) = "ok" => IsRefreshToken(t)
        /\ \A p \in Procs :
              /\ (pc[p] = "idle" /\ pc'[p] = "refresh_user")
                    => IsRefreshToken(loc'[p].req.refreshCookie)
              /\ (pc[p] = "idle" /\ pc'[p] = "change_update")
                    => IsAccessToken(loc'[p].req.authorization)
        /\ (Answers("logout") /\ ledger' # ledger) => IsRefreshToken(last'.req.refreshCookie)
        /\ (Answers("me") /\ last'.resp.status = 200) => IsAccessToken(last'.req.accessCookie)
        /\ (AnswersAtOnce("refresh") /\ ~IsRefreshToken(last'.req.refreshCookie))
              => Unauthenticated(last'.resp) /\ ledger' = ledger
        /\ (Answers("me") /\ ~IsAccessToken(last'.req.accessCookie))
              => Unauthenticated(last'.resp)
        /\ (AnswersAtOnce("changePassword") /\ ~IsAccessToken(last'.req.authorization))
              => Unauthenticated(last'.resp) /\ users' = users ]_vars

\* refresh has refused a genuine, unexpired access token presented as the
\* refresh_token cookie.
C18_Witness ==
    /\ last.op = "refresh"
    /\ last.req.refreshCookie \in AccessTokens
    /\ last.req.refreshCookie.exp > now
    /\ Unauthenticated(last.resp)
    /\ last.resp.message = "Invalid refresh token"

\* C19 (as stated): once logoutUser has settled, the local session has
\* ended: user is null, isAuthenticated is false and no token is left in
\* localStorage, also when the logout request failed.
C19_LogoutEndsLocalSession ==
    (fe.thunk = "idle" /\ fe.settled = "logoutUser")
        => /\ fe.user = NoUser
           /\ ~fe.isAuthenticated
           /\ fe.localAccess = NoToken
           /\ fe.localRefresh = NoToken

\* C20 (as stated): when checkAuthStatus has settled for a browser whose
\* stored access token is expired and whose refresh token is still valid
\* (unexpired, trusted by the ledger, its user present), the thunk has
\* refreshed the session: isAuthenticated and isInitialized are both true.
C20_AutoRefresh ==
    ( /\ fe.thunk = "idle"
      /\ fe.settled = "checkAuthStatus"
      /\ fe.localAccess # NoToken
      /\ fe.localAccess.exp < now
      /\ fe.cookieRefresh # NoToken
      /\ fe.cookieRefresh.exp > now
      /\ \E t \in ledger : t.jti = fe.cookieRefresh.jti /\ ~t.revoked /\ t.expires_at > now
      /\ UsersById(fe.cookieRefresh.sub) # {} )
        => fe.isAuthenticated /\ fe.isInitialized

(***************************************************************************)
(* C21. refresh looks at the ledger in its first statement only: a handler *)
(* that passed isValid and found its user answers 200 and adds one new     *)
(* unrevoked row, whatever another handler did to the old jti in between.  *)
(* So two concurrent refreshes of one valid token can both succeed, and    *)
(* the ledger then holds two distinct valid jtis derived from that token.  *)
(***************************************************************************)
C21_RefreshRace ==
    [][ \A p \in Procs :
          (pc[p] = "refresh_store" /\ pc'[p] = "idle" /\ seq' # seq
              /\ UsersById(loc[p].user.id) # {})
            => /\ last'.op = "refresh"
               /\ last'.resp.status = 200
               /\ ledger \subseteq ledger'
               /\ Cardinality(ledger' \ ledger) = 1
               /\ \A r \in ledger' \ ledger :
                     /\ r.jti = last'.resp.refresh.jti
                     /\ r.user_id = last'.req.refreshCookie.sub
                     /\ ~r.revoked
               /\ ~LedgerTrusts(last'.req.refreshCookie.jti) ]_vars

\* Both refreshes of the sign-up token have been answered 200: its row is
\* revoked and the ledger trusts two other jtis.
C21_Witness ==
    /\ last.op = "refresh"
    /\ last.resp.status = 200
    /\ \A p \in Procs : pc[p] = "idle"
    /\ last.req.refreshCookie.jti = 1
    /\ \E r \in ledger : r.jti = 1 /\ r.revoked
    /\ Cardinality({r \in ledger : r.jti # 1 /\ LedgerTrusts(r.jti)}) = 2
    /\ Cardinality({t \in RefreshTokens : t.jti # 1}) = 2

(***************************************************************************)
(* C22 (as stated).  Forced re-login under concurrency: a refresh whose    *)
(* token was issued before a password change or reset of its user that has *)
(* already answered success (its jti is among the rows that call revoked)  *)
(* started before the change completed, so the row it stores is not a      *)
(* valid row of the user.                                                  *)
(***************************************************************************)
C22_ForcedReloginConcurrent ==
    [][ \A p \in Procs :
          (pc[p] = "refresh_store" /\ pc'[p] = "idle" /\ seq' # seq
              /\ loc[p].req.refreshCookie.jti \in forced)
            => ~\E r \in ledger' :
                   /\ r.user_id = loc[p].user.id
                   /\ r.jti = loc[p].refresh.jti
                   /\ ~r.revoked /\ r.expires_at > now ]_vars

\* Handler p stops in this step between the two ledger statements of refresh.
CrashesBetween(p) == pc[p] = "refresh_store" /\ pc'[p] = "idle" /\ seq' = seq

(***************************************************************************)
(* C23 (as stated).  A refresh that stops between its two ledger           *)
(* statements has stored the new refresh token and not yet revoked the old *)
(* one: the ledger trusts the old jti and the new jti.                     *)
(***************************************************************************)
C23_CrashLeavesBoth ==
    [][ \A p \in Procs :
          CrashesBetween(p)
            => /\ LedgerTrusts(loc[p].req.refreshCookie.jti)'
               /\ LedgerTrusts(loc[p].refresh.jti)' ]_vars

(***************************************************************************)
(* C23 (amended).  refresh revokes the old refresh token before it stores  *)
(* the new one: while a handler is between the two statements, and after   *)
(* it has stopped there, the ledger trusts neither the old jti nor the new *)
(* jti, which has no row at all.                                           *)
(***************************************************************************)
C23_CrashLeavesNeither ==
    [][ \A p \in Procs :
          /\ (pc'[p] = "refresh_store")
               => \A r \in ledger' :
                      /\ r.jti = loc'[p].req.refreshCookie.jti => r.revoked
                      /\ r.jti # loc'[p].refresh.jti
          /\ CrashesBetween(p)
               => /\ ledger' = ledger
                  /\ ~LedgerTrusts(loc[p].req.refreshCookie.jti)'
                  /\ \A r \in ledger' : r.jti # loc[p].refresh.jti ]_vars

\* A refresh of the sign-up token stopped between its two statements: a
\* second token pair was generated, the only row is revoked, nothing was
\* stored, no request is in flight and no logout or refresh was answered.
C23_Witness ==
    /\ \A p \in Procs : pc[p] = "idle"
    /\ last.op = "signup"
    /\ nextJti = 3
    /\ \A t \in RefreshTokens : t.jti = 1
    /\ Cardinality(ledger) = 1
    /\ \A r \in ledger : r.jti = 1 /\ r.revoked

\* The database statement handler p is about to run fails: the INSERT into
\* users meets the UNIQUE email, or the INSERT into refresh_tokens names a
\* user that no longer exists.
StatementFails(p) ==
    \/ pc[p] = "signup_insert" /\ UsersByEmail(loc[p].req.email) # {}
    \/ pc[p] \in {"signup_store", "signin_store", "refresh_store"}
          /\ UsersById(loc[p].user.id) = {}

(***************************************************************************)
(* C24 (as stated).  Persistence failures surface as Internal: when a      *)
(* database statement of signup, signin or refresh fails, the request is   *)
(* answered 500 with code internal, and the ledger is left as it was.      *)
(***************************************************************************)
C24_PersistenceFailuresInternal ==
    [][ \A p \in Procs :
          (StatementFails(p) /\ pc'[p] = "idle" /\ seq' # seq)
            => /\ last'.resp.status = 500
               /\ last'.resp.code = "internal"
               /\ ledger' = ledger ]_vars

(***************************************************************************)
(* C25 (as stated).  The count the cleanup job reports equals the number   *)
(* of ledger rows its DELETE removed, whatever other handlers did between  *)
(* its COUNT and its DELETE.                                               *)
(***************************************************************************)
C25_CleanupCountExact ==
    [][ \A p \in Procs :
          (pc[p] = "cleanup_delete" /\ pc'[p] = "idle" /\ seq' # seq)
            => last'.resp.count = Cardinality(ledger \ ledger') ]_vars

(***************************************************************************)
(* C26. revokeAllUserTokens(userId) changes only the unrevoked rows of     *)
(* userId: in the step of resetPassword or changePassword that calls it,   *)
(* every row of every other user and every row of the user that was        *)
(* already revoked (its revoked_at included) is unchanged, the user's      *)
(* unrevoked rows become revoked with revoked_at = now, and no row is      *)
(* added or removed.                                                       *)
(***************************************************************************)
C26_RevokeAllFrame ==
    [][ \A p \in Procs :
          (pc[p] \in {"reset_revoke", "change_revoke"} /\ pc'[p] = "idle")
            => /\ \A r \in ledger :
                     (r.user_id # loc[p].user.id \/ r.revoked) => r \in ledger'
               /\ \A r \in ledger :
                     (r.user_id = loc[p].user.id /\ ~r.revoked)
                        => [r EXCEPT !.revoked = TRUE, !.revoked_at = now] \in ledger'
               /\ Cardinality(ledger') = Cardinality(ledger) ]_vars

\* A password change or reset has answered success at a time later than 0:
\* the user's row revoked at time 0 kept its revoked_at, the user's other
\* row was revoked now.
C26_Witness ==
    /\ last.op \in {"changePassword", "resetPassword"}
    /\ last.resp.success
    /\ now > 0
    /\ \E r1 \in ledger, r2 \in ledger :
          /\ r1.user_id = r2.user_id
          /\ r1.revoked /\ r1.revoked_at = 0
          /\ r2.revoked /\ r2.revoked_at = now

\* This step's only change of the ledger is what one revoke of jti does:
\* the row of jti, if there is one, is revoked afterwards and has kept its
\* other columns (revoked_at is set now, or kept or set again when the row
\* was revoked before); every other row is as it was; without a row for jti
\* nothing changes.
RevokedBy(jti) ==
    /\ \A r \in ledger : r.jti # jti => r \in ledger'
    /\ \A x \in ledger' : x.jti # jti => x \in ledger
    /\ \A r \in ledger :
          r.jti = jti
            => \E x \in ledger' :
                  /\ x = [r EXCEPT !.revoked = TRUE, !.revoked_at = x.revoked_at]
                  /\ x.revoked_at \in (IF r.revoked THEN {r.revoked_at, now} ELSE {now})
    /\ Cardinality(ledger') = Cardinality(ledger)

(***************************************************************************)
(* C27. revokeRefreshToken(jti) is idempotent and total: in every step     *)
(* that calls it (logout with a token validateRefreshToken accepts, and    *)
(* the revoke statement of refresh) the row of jti ends revoked whether or *)
(* not it was revoked before, a jti without a row changes nothing, no      *)
(* other row changes, and the call does not fail: logout answers success.  *)
(***************************************************************************)
C27_RevokeIdempotent ==
    [][ /\ (Answers("logout") /\ validateRefreshToken(last'.req.refreshCookie, now) = "ok")
              => /\ RevokedBy(last'.req.refreshCookie.jti)
                 /\ last'.resp.status = 200 /\ last'.resp.success
        /\ \A p \in Procs :
              (pc[p] = "refresh_revoke" /\ pc'[p] = "refresh_store")
                 => RevokedBy(loc[p].req.refreshCookie.jti) ]_vars

\* A logout with a token that a completed refresh had already revoked has
\* been answered success at a later time: the row is revoked, with the time
\* of the second call.
C27_Witness ==
    /\ last.op = "logout"
    /\ last.resp.success
    /\ validateRefreshToken(last.req.refreshCookie, now) = "ok"
    /\ last.req.refreshCookie.jti \in rotated
    /\ now > 0
    /\ \E r \in ledger :
          r.jti = last.req.refreshCookie.jti /\ r.revoked /\ r.revoked_at = now
    /\ \E r \in ledger : ~r.revoked /\ r.expires_at < now + LEDGER_EXPIRY

(***************************************************************************)
(* C28 (as stated).  Token validation tells expiry from a bad signature:   *)
(* changePassword given a correctly signed access token that has expired   *)
(* answers 401 "Access token expired", and validateRefreshToken fails on   *)
(* every issued refresh token that has expired with "Refresh token         *)
(* expired"; a token signed with another key gets "Invalid access token" / *)
(* "Invalid refresh token".                                                *)
(***************************************************************************)
C28_ExpiryDistinguished ==
    [][ /\ (Answers("changePassword")
              /\ last'.req.authorization \in AccessTokens
              /\ now >= last'.req.authorization.exp)
             => (Unauthenticated(last'.resp) /\ last'.resp.message = "Access token expired")
        /\ \A t \in RefreshTokens :
              /\ now >= t.exp => validateRefreshToken(t, now) = "Refresh token expired"
              /\ validateRefreshToken(Forge(t), now) = "Invalid refresh token"
        /\ \A t \in AccessTokens :
              validateAccessToken(Forge(t), now) = "Invalid access token" ]_vars

(***************************************************************************)
(* C29. Every successful signup, signin and refresh adds exactly one       *)
(* ledger row in the step that answers: unrevoked, expiring in 7 days,     *)
(* owned by the authenticated user (the user of the request's email, or    *)
(* the subject of the presented refresh token) and carrying the jti of the *)
(* refresh token delivered in the response; both delivered tokens name     *)
(* that user; the delivered refresh token is a refresh token signed with   *)
(* the refresh secret; and a refresh presenting an issued, unexpired token *)
(* whose jti the ledger trusts is never refused by the token or ledger     *)
(* checks.                                                                 *)
(***************************************************************************)
C29_OneRowPerIssue ==
    [][ /\ \A op \in {"signup", "signin", "refresh"} :
              (Answers(op) /\ last'.resp.status = 200)
                => LET owner == IF op = "refresh" THEN last'.req.refreshCookie.sub
                                ELSE last'.resp.user.id IN
                   /\ ledger \subseteq ledger'
                   /\ Cardinality(ledger' \ ledger) = 1
                   /\ \A r \in ledger' \ ledger :
                         /\ r.jti = last'.resp.refresh.jti
                         /\ r.user_id = owner
                         /\ ~r.revoked
                         /\ r.expires_at = now + 7 * 24 * 60
                   /\ last'.resp.refresh.sub = owner
                   /\ last'.resp.access.sub = owner
                   /\ op # "refresh"
                        => \E u \in users : u.id = owner /\ u.email = last'.req.email
                   /\ last'.resp.refresh.kind = "jwt"
                   /\ last'.resp.refresh.type = "refresh"
                   /\ last'.resp.refresh.key = JWT_REFRESH_SECRET
        /\ (AnswersAtOnce("refresh")
              /\ last'.req.refreshCookie \in RefreshTokens
              /\ last'.req.refreshCookie.exp > now
              /\ LedgerTrusts(last'.req.refreshCookie.jti))
             => FALSE ]_vars

\* The second user's sign-up refresh token has been refreshed while the
\* first user holds a trusted row: the new row and both new tokens belong
\* to the second user, the first user's row is as it was.
C29_Witness ==
    /\ last.op = "refresh"
    /\ last.resp.status = 200
    /\ last.req.refreshCookie.sub = 2
    /\ last.resp.refresh.sub = 2
    /\ \E r \in ledger : r.user_id = 1 /\ LedgerTrusts(r.jti)
    /\ \E r \in ledger :
          r.user_id = 2 /\ r.jti = last.resp.refresh.jti /\ LedgerTrusts(r.jti)
    /\ Cardinality(ledger) = 3

\* Reset token t was generated and no user row holds it any more.
Superseded(t) == t \in 1 .. nextReset - 1 /\ \A u \in users : u.reset_token # t

(***************************************************************************)
(* C30. At most one reset token per user is usable: the UPDATE of          *)
(* forgotPassword puts a fresh token and its expiry on the user's row in   *)
(* place of the token an earlier forgotPassword stored, so no row holds    *)
(* the earlier token and a resetPassword made with it is answered 400      *)
(* invalid_argument and changes nothing; no two rows hold the same token;  *)
(* and no step of forgotPassword changes a password hash, another column   *)
(* of another user, or any ledger row.                                     *)
(***************************************************************************)
C30_OneResetToken ==
    [][ /\ \A p \in Procs :
              (pc[p] = "forgot_update" /\ pc'[p] = "idle")
                => /\ ledger' = ledger
                   /\ \A u \in users :
                         \E x \in users' :
                            IF u.id = loc[p].user.id
                            THEN /\ x = [u EXCEPT !.reset_token = x.reset_token,
                                                  !.reset_token_expires = x.reset_token_expires]
                                 /\ x.reset_token \notin {NULL, u.reset_token}
                                 /\ x.reset_token = nextReset
                                 /\ x.reset_token_expires = now + 60
                                 /\ u.reset_token # NULL => Superseded(u.reset_token)'
                            ELSE x = u
                   /\ Cardinality(users') = Cardinality(users)
        /\ Answers("forgotPassword")
              => /\ ledger' = ledger
                 /\ \A u \in users : \E x \in users' :
                       x.id = u.id /\ x.password_hash = u.password_hash
        /\ \A u1 \in users', u2 \in users' :
              (u1.reset_token # NULL /\ u1.reset_token = u2.reset_token) => u1 = u2
        /\ (AnswersAtOnce("resetPassword") /\ Superseded(last'.req.token))
              => /\ last'.resp.status = 400
                 /\ last'.resp.code = "invalid_argument"
                 /\ users' = users /\ ledger' = ledger
        /\ \A p \in Procs :
              (pc[p] = "idle" /\ pc'[p] = "reset_update")
                 => ~Superseded(loc'[p].req.token) ]_vars

\* resetPassword with the first reset token has been refused although no
\* time has passed and the password was never reset: a second
\* forgotPassword had replaced it with the token the row holds now.
C30_Witness ==
    /\ last.op = "resetPassword"
    /\ last.req.token = 1
    /\ last.resp.status = 400
    /\ last.resp.message = "Invalid or expired reset token"
    /\ now = 0
    /\ cred["a@x.com"].password = "secret1"
    /\ \E u \in users : u.email = "a@x.com" /\ u.reset_token = 2

====
